---------------------------- MODULE Spec2Model ----------------------------
(***************************************************************************)
(* Template training of photoz_template_learning.                          *)
(*                                                                         *)
(*   src/modules/training.py  train_templates, perturbation_round,         *)
(*                            perturb_template, calc_mse                   *)
(*   src/modules.py           Sed, match_photometry, create_training_sets  *)
(*                                                                         *)
(* Numbers.  A float is modelled as an exact rational <<n, d>> in lowest   *)
(* terms with d > 0; <<1, 0>>, <<-1, 0>> and <<0, 0>> stand for inf, -inf   *)
(* and nan, which numpy produces when an array is divided by zero.  The    *)
(* one place where the model gives up exactness is the linear solve: its   *)
(* solution is rounded to multiples of 1/Precision, the model's picture of *)
(* the finite precision of the float solve, which keeps the reachable flux *)
(* curves finite in number.                                                *)
(*                                                                         *)
(* Training sets.  training.py takes its training sets from                *)
(* modules.photomatching.create_training_sets; the create_training_sets    *)
(* of src/modules.py is the one modelled.  It stores one row per           *)
(* observation (one filter of one galaxy), and the loops of training.py    *)
(* over the galaxies of a training set and their filters are modelled as   *)
(* loops over these rows.  Bandpass.R of training.py is the response curve *)
(* phi of src/modules.py.                                                  *)
(***************************************************************************)
EXTENDS Integers, Sequences, FiniteSets, TLC

(***************************************************************************)
(* Rational arithmetic                                                     *)
(***************************************************************************)
Abs(x) == IF x < 0 THEN -x ELSE x

Sign(x) == IF x < 0 THEN -1 ELSE IF x > 0 THEN 1 ELSE 0

RECURSIVE GCD(_, _)
GCD(a, b) == IF b = 0 THEN a ELSE GCD(b, a % b)

RNorm(n, d) ==
    IF d = 0 THEN <<Sign(n), 0>>
    ELSE LET g == GCD(Abs(n), Abs(d))
         IN  <<Sign(d) * (n \div g), Abs(d) \div g>>

R(n) == <<n, 1>>

\* an optional argument: None when it is not given (renorm: False), else
\* Some(v)
None == << >>

Some(v) == <<v>>

NaN == <<0, 0>>

IsFinite(x) == x[2] # 0

IsNaN(x) == x = NaN

RNeg(x) == <<-x[1], x[2]>>

RAbs(x) == <<Abs(x[1]), x[2]>>

\* the sum over the least common denominator
RAdd(x, y) ==
    LET g == GCD(x[2], y[2])
    IN  IF g = 0 THEN RNorm(x[1] * y[2] + y[1] * x[2], x[2] * y[2])
        ELSE RNorm(x[1] * (y[2] \div g) + y[1] * (x[2] \div g), (x[2] \div g) * y[2])

RSub(x, y) == RAdd(x, RNeg(y))

\* the product, reduced crosswise before multiplying
RMul(x, y) ==
    LET g1 == GCD(Abs(x[1]), y[2])
        g2 == GCD(Abs(y[1]), x[2])
    IN  IF g1 = 0 \/ g2 = 0 THEN RNorm(x[1] * y[1], x[2] * y[2])
        ELSE <<(x[1] \div g1) * (y[1] \div g2), (x[2] \div g2) * (y[2] \div g1)>>

\* numpy's float division: x/0 is inf, -inf or nan, never an exception
RDiv(x, y) ==
    IF y[1] = 0 THEN <<Sign(x[1]), 0>>
    ELSE RMul(x, <<Sign(y[1]) * y[2], Abs(y[1])>>)

RSq(x) == RMul(x, x)

\* x < y for finite x, y, by continued fractions (no product is formed)
RECURSIVE RLessFinite(_, _)
RLessFinite(x, y) ==
    LET fx == x[1] \div x[2]
        fy == y[1] \div y[2]
        rx == x[1] % x[2]
        ry == y[1] % y[2]
    IN  IF fx # fy THEN fx < fy
        ELSE IF ry = 0 THEN FALSE
        ELSE IF rx = 0 THEN TRUE
        ELSE RLessFinite(<<y[2], ry>>, <<x[2], rx>>)

\* x < y as floats compare: false when either is nan; -inf below and inf above
\* every finite number
RLess(x, y) ==
    IF IsNaN(x) \/ IsNaN(y) THEN FALSE
    ELSE IF x[2] = 0 THEN x[1] < 0 /\ y # x
    ELSE IF y[2] = 0 THEN y[1] > 0
    ELSE RLessFinite(x, y)

RLeq(x, y) == ~RLess(y, x)

RECURSIVE RSumTo(_, _)
RSumTo(s, n) == IF n = 0 THEN R(0) ELSE RAdd(RSumTo(s, n - 1), s[n])

RSum(s) == RSumTo(s, Len(s))

\* x rounded to the nearest multiple of 1/q (halves away from floor)
RoundTo(x, q) == RNorm((2 * q * x[1] + x[2]) \div (2 * x[2]), q)

(***************************************************************************)
(* numpy array functions                                                   *)
(***************************************************************************)
\* np.argmin of a sequence of finite rationals: the first minimum
ArgMin(s) ==
    CHOOSE i \in DOMAIN s :
        /\ \A j \in DOMAIN s : ~RLess(s[j], s[i])
        /\ \A j \in 1..(i - 1) : RLess(s[i], s[j])

\* np.argmin of floats that may be nan: the first nan, else the first minimum
ArgMinNaN(s) ==
    IF \E i \in DOMAIN s : IsNaN(s[i])
    THEN CHOOSE i \in DOMAIN s : IsNaN(s[i]) /\ \A j \in 1..(i - 1) : ~IsNaN(s[j])
    ELSE ArgMin(s)

\* the k-th smallest entry of a sequence of finite rationals
KthSmallest(s, k) ==
    LET i == CHOOSE i \in DOMAIN s :
                 /\ Cardinality({j \in DOMAIN s : RLess(s[j], s[i])}) < k
                 /\ Cardinality({j \in DOMAIN s : RLeq(s[j], s[i])}) >= k
    IN  s[i]

\* np.median: the middle entry, or the mean of the two middle entries
Median(s) ==
    LET n == Len(s)
    IN  IF n = 0 THEN NaN
        ELSE IF n % 2 = 1 THEN KthSmallest(s, (n + 1) \div 2)
        ELSE RMul(RAdd(KthSmallest(s, n \div 2), KthSmallest(s, n \div 2 + 1)), <<1, 2>>)

\* np.interp(x, xp, fp) at one point x: linear between the grid points of the
\* increasing integer grid xp, constant outside it
Interp(x, xp, fp) ==
    LET n == Len(xp)
    IN  IF x <= xp[1] THEN fp[1]
        ELSE IF x >= xp[n] THEN fp[n]
        ELSE LET j == CHOOSE j \in 1..(n - 1) : xp[j] <= x /\ x < xp[j + 1]
             IN  RAdd(fp[j], RMul(RSub(fp[j + 1], fp[j]),
                                  RNorm(x - xp[j], xp[j + 1] - xp[j])))

InterpAll(xs, xp, fp) == [i \in DOMAIN xs |-> Interp(xs[i], xp, fp)]

(***************************************************************************)
(* Sed (src/modules.py)                                                    *)
(***************************************************************************)
\* Sed.redshift of a deep copy of sed: the copy's wavelength grid times 1 + z
Redshift(sed, z) ==
    [sed EXCEPT !.wavelen = [i \in DOMAIN sed.wavelen |-> sed.wavelen[i] * (1 + z)]]

\* Sed.flux: the flux curve interpolated onto the bandpass grid and summed
\* against the response phi, times the grid step of the bandpass
SedFlux(sed, bandpass) ==
    LET y == InterpAll(bandpass.wavelen, sed.wavelen, sed.flambda)
    IN  RMul(RSum([i \in DOMAIN y |-> RMul(y[i], bandpass.phi[i])]),
             R(bandpass.wavelen[2] - bandpass.wavelen[1]))

\* Sed.fluxlist
FluxList(sed, bandpass_dict, filters) ==
    [i \in DOMAIN filters |-> SedFlux(sed, bandpass_dict[filters[i]])]

(***************************************************************************)
(* Template stores: a store is a function from keys to Seds; Python keeps  *)
(* a dict's keys in insertion order, which is KeyOrder                     *)
(***************************************************************************)
KeyOrder == <<"t1", "t2">>

KeysOf(d) == SelectSeq(KeyOrder, LAMBDA k : k \in DOMAIN d)

(***************************************************************************)
(* Photometric matching (src/modules.py)                                   *)
(***************************************************************************)
\* np.where((filters != 'Ks') & (filters != 'Kvideo')): the usable indices
RECURSIVE UsableUpTo(_, _)
UsableUpTo(filters, n) ==
    IF n = 0 THEN << >>
    ELSE IF filters[n] \in {"Ks", "Kvideo"} THEN UsableUpTo(filters, n - 1)
    ELSE Append(UsableUpTo(filters, n - 1), n)

UsableIdx(galaxy) == UsableUpTo(galaxy.filters, Len(galaxy.filters))

\* a[idx] with idx an index array: numpy's advanced indexing returns a copy,
\* so an in-place operation on the result leaves a alone
AdvancedIndexAsView(a, idx) ==
    [data |-> [k \in 1..Len(idx) |-> a[idx[k]]], view |-> TRUE]

AdvancedIndex(a, idx) ==
    [data |-> [k \in 1..Len(idx) |-> a[idx[k]]], view |-> FALSE]

\* template_fluxes /= template_fluxes[idx]; fluxes /= fluxes[idx]; the mse of
\* the two.  i is the index of the filter whose ratio is nearest to the scale.
MatchMse(galaxy, idx, sel, errs, tf, scale, i) ==
    LET n   == Len(idx)
        tfn == [k \in 1..n |-> RDiv(tf[k], tf[i])]
        fn  == [k \in 1..n |-> RDiv(sel.data[k], sel.data[i])]
    IN  [status |-> "ok",
         mse    |-> IF \E k \in 1..n : IsNaN(tfn[k]) THEN NaN
                    ELSE IF \E k \in 1..n : ~IsFinite(tfn[k]) THEN <<1, 0>>
                    ELSE RMul(RSum([k \in 1..n |->
                                      RMul(RDiv(R(1), RSq(errs[k])),
                                           RSq(RSub(tfn[k], fn[k])))]),
                              <<1, n>>),
         scale  |-> scale,
         galaxy |-> IF sel.view
                    THEN [galaxy EXCEPT !.fluxes =
                             [j \in DOMAIN galaxy.fluxes |->
                                 IF \E k \in 1..n : idx[k] = j
                                 THEN RDiv(galaxy.fluxes[j], sel.data[i])
                                 ELSE galaxy.fluxes[j]]]
                    ELSE galaxy]

\* scale = np.median(template_fluxes/fluxes) and the argmin of the distance
\* of the ratios from it
MatchRatio(galaxy, idx, sel, errs, tf, ratio, scale) ==
    MatchMse(galaxy, idx, sel, errs, tf, scale,
             ArgMin([k \in 1..Len(idx) |-> RAbs(RSub(ratio[k], scale))]))

MatchScale(galaxy, idx, sel, errs, tf, ratio) ==
    MatchRatio(galaxy, idx, sel, errs, tf, ratio, Median(ratio))

\* the usable fluxes and their relative errors against the fluxes of the
\* redshifted template in the same filters
MatchFluxes(galaxy, idx, sel, errs, tf) ==
    MatchScale(galaxy, idx, sel, errs, tf,
               [k \in 1..Len(idx) |-> RDiv(tf[k], sel.data[k])])

\* One pass of the loop of match_photometry over the templates: the mse and
\* the scale of one template, and the galaxy as the pass leaves it
MatchTemplate(template, galaxy, bandpass_dict) ==
    LET idx == UsableIdx(galaxy)
    IN  IF Len(idx) = 0
        THEN [status |-> "ValueError", mse |-> NaN, scale |-> NaN, galaxy |-> galaxy]
        ELSE MatchFluxes(galaxy, idx,
                         AdvancedIndex(galaxy.fluxes, idx),
                         [k \in 1..Len(idx) |->
                             RDiv(galaxy.flux_err[idx[k]], galaxy.fluxes[idx[k]])],
                         FluxList(Redshift(template, galaxy.redshift), bandpass_dict,
                                  [k \in 1..Len(idx) |-> galaxy.filters[idx[k]]]))

\* mse_list and scales with the mse and scale of one more template
AppendMatch(prev, one) ==
    IF prev.status # "ok" THEN prev
    ELSE IF one.status # "ok" THEN [prev EXCEPT !.status = one.status]
    ELSE [status   |-> "ok",
          mse_list |-> Append(prev.mse_list, one.mse),
          scales   |-> Append(prev.scales, one.scale),
          galaxy   |-> one.galaxy]

\* the loop of match_photometry over the first n templates of the store
RECURSIVE MatchLoop(_, _, _, _)
MatchLoop(template_dict, galaxy, bandpass_dict, n) ==
    IF n = 0
    THEN [status |-> "ok", mse_list |-> << >>, scales |-> << >>, galaxy |-> galaxy]
    ELSE LET prev == MatchLoop(template_dict, galaxy, bandpass_dict, n - 1)
         IN  AppendMatch(prev, MatchTemplate(template_dict[KeysOf(template_dict)[n]],
                                             prev.galaxy, bandpass_dict))

\* idx = mse_list.argmin(); return keys[idx], scales[idx]
BestMatch(keys, loop) ==
    IF loop.status # "ok" \/ Len(keys) = 0
    THEN [status |-> "ValueError", key |-> "none", scale |-> NaN, galaxy |-> loop.galaxy]
    ELSE [status |-> "ok",
          key    |-> keys[ArgMinNaN(loop.mse_list)],
          scale  |-> loop.scales[ArgMinNaN(loop.mse_list)],
          galaxy |-> loop.galaxy]

\* match_photometry: the key of the template of least mse and its scale; the
\* argmin of an empty list raises ValueError
match_photometry(template_dict, galaxy, bandpass_dict) ==
    BestMatch(KeysOf(template_dict),
              MatchLoop(template_dict, galaxy, bandpass_dict, Len(KeysOf(template_dict))))

(***************************************************************************)
(* Training sets (src/modules.py)                                          *)
(***************************************************************************)
\* the rows create_training_sets appends for one galaxy: one per observation
GalaxyRows(galaxy, scale) ==
    [i \in DOMAIN galaxy.wavelen |->
        [wavelen  |-> RDiv(galaxy.wavelen[i], R(1 + galaxy.redshift)),
         flux     |-> RMul(galaxy.fluxes[i], scale),
         flux_err |-> RMul(galaxy.flux_err[i], scale),
         redshift |-> galaxy.redshift,
         filter   |-> galaxy.filters[i]]]

\* the rows of one galaxy go under the key match_photometry returned
PlaceRowsUnderEveryKey(sets, match, rows) == [key \in DOMAIN sets |-> sets[key] \o rows]

PlaceRows(sets, match, rows) == [sets EXCEPT ![match] = sets[match] \o rows]

\* the sets start with one empty list per key of the store
EmptySets(template_dict) == [key \in DOMAIN template_dict |-> << >>]

\* the sets with the rows of galaxy n, whose match is m
AppendRows(prev, n, m) ==
    IF prev.status # "ok" THEN prev
    ELSE IF m.status # "ok"
    THEN [prev EXCEPT !.status = m.status,
                      !.galaxies = [prev.galaxies EXCEPT ![n] = m.galaxy]]
    ELSE [status   |-> "ok",
          sets     |-> PlaceRows(prev.sets, m.key, GalaxyRows(m.galaxy, m.scale)),
          galaxies |-> [prev.galaxies EXCEPT ![n] = m.galaxy]]

\* the loop of create_training_sets over the first n galaxies
RECURSIVE SetsLoop(_, _, _, _)
SetsLoop(template_dict, galaxies, bandpass_dict, n) ==
    IF n = 0
    THEN [status |-> "ok", sets |-> EmptySets(template_dict), galaxies |-> galaxies]
    ELSE LET prev == SetsLoop(template_dict, galaxies, bandpass_dict, n - 1)
         IN  AppendRows(prev, n,
                        match_photometry(template_dict, prev.galaxies[n], bandpass_dict))

create_training_sets(template_dict, galaxies, bandpass_dict) ==
    SetsLoop(template_dict, galaxies, bandpass_dict, Len(galaxies))

(***************************************************************************)
(* Inputs: the bandpasses, and the menus the galaxies and templates are    *)
(* drawn from.  A bandpass has a uniform grid and a response phi with      *)
(* sum(phi) * step = 1, as Bandpass.__init__ leaves it.                    *)
(***************************************************************************)
BandpassDict ==
    [g  |-> [wavelen |-> <<1, 2>>, phi |-> <<R(1), R(0)>>, eff_wavelen |-> R(1)],
     r  |-> [wavelen |-> <<1, 2>>, phi |-> <<<<1, 2>>, <<1, 2>>>>, eff_wavelen |-> <<3, 2>>],
     i  |-> [wavelen |-> <<2, 4>>, phi |-> <<<<1, 4>>, <<1, 4>>>>, eff_wavelen |-> R(3)],
     Ks |-> [wavelen |-> <<2, 4>>, phi |-> <<<<1, 2>>, R(0)>>, eff_wavelen |-> R(2)]]

\* a galaxy observed through filters, wavelen being get_eff_wavelen of them
Galaxy(z, filters, fluxes, flux_err) ==
    [redshift |-> z,
     filters  |-> filters,
     wavelen  |-> [i \in DOMAIN filters |-> BandpassDict[filters[i]].eff_wavelen],
     fluxes   |-> [i \in DOMAIN fluxes |-> R(fluxes[i])],
     flux_err |-> [i \in DOMAIN flux_err |-> R(flux_err[i])]]

\* the galaxies of the catalogue, in catalogue order
GalaxyCatalogue ==
    << Galaxy(0, <<"g", "r">>, <<4, 2>>, <<1, 1>>),
       Galaxy(0, <<"g", "r">>, <<2, 4>>, <<1, 1>>),
       Galaxy(1, <<"i", "Ks">>, <<2, 8>>, <<1, 2>>),
       Galaxy(0, <<"g">>, <<2>>, <<1>>),
       Galaxy(0, <<"Ks">>, <<2>>, <<1>>) >>

GalaxyMenu == {GalaxyCatalogue[i] : i \in DOMAIN GalaxyCatalogue}

NewSed(wavelen, flambda) ==
    [wavelen |-> wavelen, flambda |-> [i \in DOMAIN flambda |-> R(flambda[i])]]

SedMenu ==
    { NewSed(<<1, 2>>, <<2, 2>>),
      NewSed(<<1, 2>>, <<2, 4>>),
      NewSed(<<1, 2>>, <<6, 1>>) }

(***************************************************************************)
(* Perturbation Solver (src/modules/training.py)                           *)
(***************************************************************************)
\* rounding of the solve: solutions are multiples of 1/Precision
Precision == 1

\* w, the regularization weight (default of train_templates)
W == <<1, 2>>

\* np.clip(Delta, 0, 0.05): the largest Delta the code computes
DeltaClip == <<1, 20>>

\* np.diff(wavelen) with its last entry appended once more
Widths(wavelen) ==
    [i \in DOMAIN wavelen |->
        IF i < Len(wavelen) THEN wavelen[i + 1] - wavelen[i]
        ELSE wavelen[i] - wavelen[i - 1]]

\* rn * dlambda of one row: the response interpolated onto the redshifted
\* template grid, times the redshifted bin widths
RnDlambda(row, template, bandpass_dict) ==
    LET band    == bandpass_dict[row.filter]
        wavelen == template.wavelen
        widths  == Widths(wavelen)
        z       == row.redshift
    IN  [i \in DOMAIN wavelen |->
            RMul(Interp(wavelen[i] * (1 + z), band.wavelen, band.phi),
                 R(widths[i] * (1 + z)))]

\* the flux of the template, redshifted to the row's redshift, in its filter
TemplateFlux(row, template, bandpass_dict) ==
    SedFlux(Redshift(template, row.redshift), bandpass_dict[row.filter])

\* sigma_n = flux_err / fluxes
SigmaN(row) == RDiv(row.flux_err, row.flux)

ZeroMatrix(n) == [i \in 1..n |-> [j \in 1..n |-> R(0)]]

\* M after the rows have been added: the sum of outer(row, row) / sigma_n^2
RECURSIVE SumM(_, _, _, _)
SumM(training_set, template, bandpass_dict, n) ==
    IF n = 0 THEN ZeroMatrix(Len(template.wavelen))
    ELSE LET prev == SumM(training_set, template, bandpass_dict, n - 1)
             row  == training_set[n]
             rd   == RnDlambda(row, template, bandpass_dict)
             s2   == RSq(SigmaN(row))
         IN  [i \in DOMAIN prev |-> [j \in DOMAIN prev |->
                 RAdd(prev[i][j], RDiv(RMul(rd[i], rd[j]), s2))]]

\* nu after the rows have been added: the sum of gn / sigma_n^2 * rn_dlambda
RECURSIVE SumNu(_, _, _, _)
SumNu(training_set, template, bandpass_dict, n) ==
    IF n = 0 THEN [i \in DOMAIN template.wavelen |-> R(0)]
    ELSE LET prev == SumNu(training_set, template, bandpass_dict, n - 1)
             row  == training_set[n]
             rd   == RnDlambda(row, template, bandpass_dict)
             gn   == RSub(row.flux, TemplateFlux(row, template, bandpass_dict))
             gos2 == RDiv(gn, RSq(SigmaN(row)))
         IN  [i \in DOMAIN prev |-> RAdd(prev[i], RMul(gos2, rd[i]))]

\* 1 / Delta^2 for the Delta the code computes when none is given:
\* mean(sigmas) * sqrt(nbins / (w * len(sigmas))), clipped to [0, 0.05]
DefaultInvDelta2(training_set, nbins) ==
    LET nobs  == Len(training_set)
        mean  == RMul(RSum([i \in 1..nobs |-> SigmaN(training_set[i])]), <<1, nobs>>)
        d2    == RDiv(RMul(RSq(mean), R(nbins)), RMul(W, R(nobs)))
        clip2 == IF RLess(mean, R(0)) THEN R(0)
                 ELSE IF RLess(RSq(DeltaClip), d2) THEN RSq(DeltaClip) ELSE d2
    IN  RDiv(R(1), clip2)

\* 1 / Delta^2 for a Delta the caller gives; Delta = inf gives 0
GivenInvDelta2(Delta) == IF IsFinite(Delta) THEN RDiv(R(1), RSq(Delta)) ELSE R(0)

Minor(A, col) ==
    [r \in 1..(Len(A) - 1) |-> [c \in 1..(Len(A) - 1) |->
        A[r + 1][IF c < col THEN c ELSE c + 1]]]

RECURSIVE Det(_)
Det(A) ==
    IF Len(A) = 1 THEN A[1][1]
    ELSE RSum([j \in 1..Len(A) |->
                 RMul(RMul(R(IF j % 2 = 1 THEN 1 ELSE -1), A[1][j]), Det(Minor(A, j)))])

\* np.linalg.solve(M, nu) by Cramer's rule, each entry rounded to a multiple
\* of 1/Precision; a singular M raises LinAlgError
Solve(M, nu) ==
    LET d == Det(M)
    IN  IF d = R(0) THEN [status |-> "LinAlgError", sol |-> << >>]
        ELSE [status |-> "ok",
              sol    |-> [i \in DOMAIN nu |->
                            RoundTo(RDiv(Det([r \in DOMAIN M |-> [c \in DOMAIN M |->
                                                IF c = i THEN nu[r] ELSE M[r][c]]]), d),
                                    Precision)]]

\* perturb_template: the correction of the flux curve.  With Delta None and
\* an empty training set, len(template.wavelen) / (w * len(sigmas)) divides a
\* Python int by 0.0 and raises ZeroDivisionError.
perturb_template(training_set, template, bandpass_dict, Delta) ==
    LET nbins == Len(template.wavelen)
        nobs  == Len(training_set)
        M     == SumM(training_set, template, bandpass_dict, nobs)
        nu    == SumNu(training_set, template, bandpass_dict, nobs)
        inv   == IF Delta = None THEN DefaultInvDelta2(training_set, nbins)
                 ELSE GivenInvDelta2(Delta[1])
        Mreg  == [i \in 1..nbins |-> [j \in 1..nbins |->
                     IF i = j THEN RAdd(M[i][j], inv) ELSE M[i][j]]]
    IN  IF Delta = None /\ nobs = 0
        THEN [status |-> "ZeroDivisionError", sol |-> << >>]
        ELSE Solve(Mreg, nu)

(***************************************************************************)
(* calc_mse (src/modules/training.py)                                      *)
(***************************************************************************)
\* se after the first n rows: the sum of (flux/flux_err)^2 * (flux - template)^2
RECURSIVE SumSe(_, _, _, _)
SumSe(training_set, template, bandpass_dict, n) ==
    IF n = 0 THEN R(0)
    ELSE LET row == training_set[n]
             d   == RSub(row.flux, TemplateFlux(row, template, bandpass_dict))
         IN  RAdd(SumSe(training_set, template, bandpass_dict, n - 1),
                  RMul(RSq(RDiv(row.flux, row.flux_err)), RSq(d)))

\* calc_mse: se / N.  With an empty training set se and N are the Python ints
\* 0 and 0, and 0/0 raises ZeroDivisionError; a row scaled by 0 has
\* flux/flux_err = 0/0 = nan, and the mse is nan.
calc_mse(training_set, template, bandpass_dict) ==
    LET N == Len(training_set)
    IN  IF N = 0 THEN [status |-> "ZeroDivisionError", mse |-> NaN]
        ELSE IF \E i \in 1..N : ~IsFinite(RDiv(training_set[i].flux, training_set[i].flux_err))
        THEN [status |-> "ok", mse |-> NaN]
        ELSE [status |-> "ok",
              mse    |-> RDiv(SumSe(training_set, template, bandpass_dict, N), R(N))]

(***************************************************************************)
(* Renormalization (src/modules/training.py, the end of train_templates)   *)
(***************************************************************************)
\* the step of the coarse grid, in Angstrom
RegridStep == 100

\* kernel_size of medfilt
KernelSize == 9

\* np.arange(a, b, step) for integers
Arange(a, b, step) ==
    [i \in 1..(IF b > a THEN (b - a + step - 1) \div step ELSE 0) |-> a + (i - 1) * step]

\* scipy.signal.medfilt: the median of the k entries around each entry, the
\* array being padded with zeros
MedFilt(Y, k) ==
    [i \in DOMAIN Y |->
        KthSmallest([j \in 1..k |->
                        LET p == i + j - (k + 1) \div 2
                        IN  IF p \in DOMAIN Y THEN Y[p] ELSE R(0)],
                    (k + 1) \div 2)]

\* Y: the flux curve regridded on the coarse grid and median filtered
Smoothed(template) ==
    LET n == Len(template.wavelen)
        X == Arange(template.wavelen[1], template.wavelen[n], RegridStep)
    IN  MedFilt(InterpAll(X, template.wavelen, template.flambda), KernelSize)

\* idx = np.fabs(template.wavelen - renorm).argmin(), counted from 1
RenormIdx(template, renorm) ==
    ArgMin([i \in DOMAIN template.wavelen |-> R(Abs(template.wavelen[i] - renorm))])

\* template.flambda /= Y[idx]; Y[idx] raises IndexError when idx is no index
\* of Y
RenormTemplate(template, renorm) ==
    LET Y   == Smoothed(template)
        idx == RenormIdx(template, renorm)
    IN  IF idx > Len(Y) THEN [status |-> "IndexError", sed |-> template]
        ELSE [status |-> "ok",
              sed    |-> [template EXCEPT !.flambda =
                             [i \in DOMAIN template.flambda |->
                                 RDiv(template.flambda[i], Y[idx])]]]

\* the loop over new_templates.values(): an IndexError leaves the templates
\* before it divided and the others not
RECURSIVE RenormLoop(_, _, _)
RenormLoop(store, renorm, n) ==
    IF n = 0 THEN [status |-> "ok", store |-> store]
    ELSE LET prev == RenormLoop(store, renorm, n - 1)
             key  == KeysOf(store)[n]
             one  == RenormTemplate(prev.store[key], renorm)
         IN  IF prev.status # "ok" THEN prev
             ELSE [status |-> one.status, store |-> [prev.store EXCEPT ![key] = one.sed]]

RenormAll(store, renorm) ==
    IF renorm = None THEN [status |-> "ok", store |-> store]
    ELSE RenormLoop(store, renorm[1], Len(KeysOf(store)))

(***************************************************************************)
(* Convergence loop (perturbation_round) and the orchestrator              *)
(* (train_templates) of src/modules/training.py                            *)
(***************************************************************************)
\* dmse_stop (default of train_templates and perturbation_round)
DmseStop == <<1, 20>>

\* the mse0 every template starts with
Mse0Init == R(1000000000)

\* bounds of the model: galaxies per run, perturbations of one convergence
\* loop and rounds of one run that are followed
MaxGal == 2

MaxPertCap == 3

MaxRoundCap == 3

VARIABLES
    pc,             \* where train_templates is: "build", "pool", "done", "raised"
    params,         \* maxRounds, maxPerts, Delta, renorm
    template_dict,  \* the caller's template collection
    galaxies,       \* the caller's galaxies
    bandpass_dict,  \* the caller's bandpasses
    given,          \* the three inputs as they were at the call
    new_templates,  \* the store being trained
    mse0,           \* per key, the baseline mse of the next round
    history,        \* per key, per round: the snapshots and their mses
    roundN,
    training_sets,
    tasks,          \* per key, the perturbation_round task of the pool
    totPerts,
    builds,         \* calls of create_training_sets so far
    passes,         \* per key, calls of perturbation_round so far
    probe           \* per key, what calls made outside train_templates returned

vars == <<pc, params, template_dict, galaxies, bandpass_dict, given, new_templates,
          mse0, history, roundN, training_sets, tasks, totPerts, builds, passes,
          probe>>

\* abs((mse - mse0) / mse0) > dmse_stop in numpy floats: a nan on either side
\* compares false, and a zero mse0 gives inf unless mse is zero too
Exceeds(mse, base) ==
    IF IsNaN(mse) \/ IsNaN(base) THEN FALSE
    ELSE IF base = R(0) THEN mse # R(0)
    ELSE LET tol == RMul(DmseStop, RAbs(base))
         IN  RLess(RAdd(base, tol), mse) \/ RLess(mse, RSub(base, tol))

\* nothing was called outside train_templates
NoProbe == [first |-> None, solver |-> None]

\* copy.deepcopy(template_dict): a store of its own
DeepCopyAliased(d) == [store |-> d, alias |-> TRUE]

DeepCopy(d) == [store |-> d, alias |-> FALSE]

\* the caller's collection after new_templates became nt: it follows only if
\* new_templates is the caller's own dict
CallerSees(nt) == IF nt.alias THEN nt.store ELSE template_dict

IdleTask ==
    [pc |-> "idle", round |-> 0, run |-> 0, training_set |-> << >>,
     template |-> NewSed(<< >>, << >>), start |-> NewSed(<< >>, << >>),
     mse0 |-> NaN, base |-> NaN, mse_list |-> << >>, templates |-> << >>,
     pertN |-> 0, exit |-> "none", error |-> "none"]

\* the arguments pool.starmap hands to perturbation_round for one key
QueuedTaskWithFreshBaseline(training_set, template, base, round, run) ==
    [IdleTask EXCEPT !.pc = "queued", !.round = round, !.run = run,
                     !.training_set = training_set, !.template = template,
                     !.start = template, !.mse0 = Mse0Init, !.base = Mse0Init]

QueuedTask(training_set, template, base, round, run) ==
    [IdleTask EXCEPT !.pc = "queued", !.round = round, !.run = run,
                     !.training_set = training_set, !.template = template,
                     !.start = template, !.mse0 = base, !.base = base]

Last(s) == s[Len(s)]

\* template.flambda += sol
AddCorrection(flambda, sol) == [i \in DOMAIN flambda |-> RAdd(flambda[i], sol[i])]

\* the task with its first mse r and its first snapshot
FirstMse(t, r) ==
    IF r.status # "ok" THEN [t EXCEPT !.pc = "raised", !.error = r.status]
    ELSE [t EXCEPT !.mse0      = r.mse,
                   !.mse_list  = <<r.mse>>,
                   !.templates = <<t.template>>,
                   !.pertN     = 0,
                   !.pc        = IF Exceeds(r.mse, t.mse0) THEN "perturbing" ELSE "done",
                   !.exit      = IF Exceeds(r.mse, t.mse0) THEN "none" ELSE "converged"]

\* perturbation_round up to its while loop: the first mse, the first snapshot
BeginRound(t) == FirstMse(t, calc_mse(t.training_set, t.template, bandpass_dict))

\* pertN == maxPerts, the test that breaks out of the while loop
MaxPertsReached(pertN, maxPerts) == maxPerts # None /\ pertN = maxPerts[1]

\* the task with the snapshot tmpl of the perturbed template and its mse r
NextMse(t, maxPerts, tmpl, r) ==
    [t EXCEPT !.template  = tmpl,
              !.templates = Append(t.templates, tmpl),
              !.mse0      = r.mse,
              !.mse_list  = Append(t.mse_list, r.mse),
              !.pertN     = t.pertN + 1,
              !.pc        = IF MaxPertsReached(t.pertN + 1, maxPerts)
                               \/ ~Exceeds(r.mse, t.mse0)
                            THEN "done" ELSE "perturbing",
              !.exit      = IF MaxPertsReached(t.pertN + 1, maxPerts) THEN "max_iters"
                            ELSE IF ~Exceeds(r.mse, t.mse0) THEN "converged"
                            ELSE "none"]

\* the task after template.flambda += sol
Perturbed(t, maxPerts, tmpl) ==
    NextMse(t, maxPerts, tmpl, calc_mse(t.training_set, tmpl, bandpass_dict))

\* the task after the solver returned p
Solved(t, maxPerts, p) ==
    IF p.status # "ok"
    THEN [t EXCEPT !.pc = "raised", !.error = p.status, !.pertN = t.pertN + 1]
    ELSE Perturbed(t, maxPerts,
                   [t.template EXCEPT !.flambda = AddCorrection(t.template.flambda, p.sol)])

\* one pass of the while loop of perturbation_round
PerturbStep(t, maxPerts, Delta) ==
    Solved(t, maxPerts,
           perturb_template(t.training_set, t.template, bandpass_dict, Delta))

\* a worker of the pool takes up the task of key k
TaskBegin(k) ==
    /\ pc = "pool"
    /\ tasks[k].pc = "queued"
    /\ tasks' = [tasks EXCEPT ![k] = BeginRound(tasks[k])]
    /\ passes' = [passes EXCEPT ![k] = @ + 1]
    /\ UNCHANGED <<pc, params, template_dict, galaxies, bandpass_dict, given,
                   new_templates, mse0, history, roundN, training_sets, totPerts,
                   builds, probe>>

\* the worker of key k goes once through the while loop
TaskPerturb(k) ==
    /\ pc = "pool"
    /\ tasks[k].pc = "perturbing"
    /\ tasks[k].pertN < MaxPertCap
    /\ tasks' = [tasks EXCEPT ![k] = PerturbStep(tasks[k], params.maxPerts, params.Delta)]
    /\ UNCHANGED <<pc, params, template_dict, galaxies, bandpass_dict, given,
                   new_templates, mse0, history, roundN, training_sets, totPerts,
                   builds, passes, probe>>

\* the top of the while loop of train_templates: the round's training sets,
\* then the tasks handed to pool.starmap
Build ==
    /\ pc = "build"
    /\ roundN < MaxRoundCap
    /\ \E cts \in {create_training_sets(new_templates.store, galaxies, bandpass_dict)} :
           /\ roundN' = roundN + 1
           /\ builds' = builds + 1
           /\ galaxies' = cts.galaxies
           /\ IF cts.status = "ok"
              THEN /\ training_sets' = cts.sets
                   /\ tasks' = [k \in DOMAIN new_templates.store |->
                                   QueuedTask(cts.sets[k], new_templates.store[k],
                                              mse0[k], roundN + 1, 1)]
                   /\ pc' = "pool"
              ELSE /\ pc' = "raised"
                   /\ UNCHANGED <<training_sets, tasks>>
    /\ UNCHANGED <<params, template_dict, bandpass_dict, given, new_templates, mse0,
                   history, totPerts, passes, probe>>

\* pool.starmap returns when every task of the round has returned
RoundCompleteOnceStarted ==
    \A k \in DOMAIN tasks : tasks[k].pc \in {"perturbing", "done"}

RoundCompleteSkippingFailedSolves ==
    \A k \in DOMAIN tasks : tasks[k].pc = "done" \/ tasks[k].error = "LinAlgError"

RoundComplete == \A k \in DOMAIN tasks : tasks[k].pc = "done"

RECURSIVE SumPerts(_, _, _)
SumPerts(ts, keys, n) ==
    IF n = 0 THEN 0 ELSE SumPerts(ts, keys, n - 1) + (Len(ts[keys[n]].templates) - 1)

\* totPerts == 0 or roundN == maxRounds
StopTrainingWhenQuiet(tot, round, maxRounds) == tot = 0

StopTraining(tot, round, maxRounds) ==
    tot = 0 \/ (maxRounds # None /\ round = maxRounds[1])

\* the rest of the loop body of train_templates: the results are merged into
\* the store; when the training stops, the store is renormalized and returned
EndRound ==
    /\ pc = "pool"
    /\ RoundComplete
    /\ \E merged \in {[k \in DOMAIN tasks |-> Last(tasks[k].templates)]} :
       \E tot \in {SumPerts(tasks, KeysOf(new_templates.store),
                             Len(KeysOf(new_templates.store)))} :
           /\ mse0' = [k \in DOMAIN tasks |-> Last(tasks[k].mse_list)]
           /\ history' = [k \in DOMAIN tasks |->
                             Append(history[k], [templates |-> tasks[k].templates,
                                                 mse_list  |-> tasks[k].mse_list])]
           /\ totPerts' = tot
           /\ IF StopTraining(tot, roundN, params.maxRounds)
              THEN \E rn \in {RenormAll(merged, params.renorm)} :
                      /\ new_templates' = [new_templates EXCEPT !.store = rn.store]
                      /\ pc' = IF rn.status = "ok" THEN "done" ELSE "raised"
              ELSE /\ new_templates' = [new_templates EXCEPT !.store = merged]
                   /\ pc' = "build"
           /\ template_dict' = CallerSees(new_templates')
    /\ UNCHANGED <<params, galaxies, bandpass_dict, given, roundN, training_sets,
                   tasks, builds, passes, probe>>

\* an exception of a task comes out of pool.starmap and ends train_templates
Abort ==
    /\ pc = "pool"
    /\ \E k \in DOMAIN tasks : tasks[k].pc = "raised"
    /\ pc' = "raised"
    /\ UNCHANGED <<params, template_dict, galaxies, bandpass_dict, given,
                   new_templates, mse0, history, roundN, training_sets, tasks,
                   totPerts, builds, passes, probe>>

(***************************************************************************)
(* The calls of train_templates that are followed                          *)
(***************************************************************************)
OneKeyStores == {[k \in {"t1"} |-> s] : s \in SedMenu}

StoreMenu ==
    OneKeyStores
    \cup {[k \in {"t1", "t2"} |-> IF k = "t1" THEN p[1] ELSE p[2]] :
             p \in {q \in SedMenu \X SedMenu : q[1] # q[2]}}

\* the galaxies argument: up to MaxGal galaxies (repeats allowed) listed in
\* catalogue order; every galaxy is matched on its own and the sums over a
\* training set do not depend on the order of its rows
GalaxyLists ==
    UNION {{[i \in 1..n |-> GalaxyCatalogue[f[i]]] :
               f \in {g \in [1..n -> DOMAIN GalaxyCatalogue] :
                          \A i \in 1..(n - 1) : g[i] <= g[i + 1]}} : n \in 0..MaxGal}

\* the keyword arguments of one call of train_templates
Call(maxRounds, maxPerts, Delta, renorm) ==
    [maxRounds |-> maxRounds, maxPerts |-> maxPerts, Delta |-> Delta, renorm |-> renorm]

\* maxRounds is not given, 0, 1 or 2; Delta is not given, 1, or inf (no
\* regularization); renorm is False or the wavelength 1
ParamsMenu ==
    {Call(None,    None,    None,            Some(1)),
     Call(None,    None,    Some(R(1)),      None),
     Call(Some(1), None,    Some(R(1)),      Some(1)),
     Call(Some(2), Some(1), Some(R(1)),      None),
     Call(None,    Some(0), Some(R(1)),      None),
     Call(None,    Some(2), Some(R(1)),      None),
     Call(Some(1), Some(1), Some(<<1, 0>>),  None),
     Call(None,    None,    Some(<<1, 0>>),  Some(1)),
     Call(Some(0), None,    Some(R(1)),      None)}

\* train_templates up to its while loop
Start(store, gals, p) ==
    /\ pc = "build"
    /\ params = p
    /\ template_dict = store
    /\ galaxies = gals
    /\ bandpass_dict = BandpassDict
    /\ given = [template_dict |-> store, galaxies |-> gals, bandpass_dict |-> BandpassDict]
    /\ new_templates = DeepCopy(store)
    /\ mse0 = [k \in DOMAIN store |-> Mse0Init]
    /\ history = [k \in DOMAIN store |-> << >>]
    /\ roundN = 0
    /\ training_sets = EmptySets(store)
    /\ tasks = [k \in DOMAIN store |-> IdleTask]
    /\ totPerts = 0
    /\ builds = 0
    /\ passes = [k \in DOMAIN store |-> 0]
    /\ probe = [k \in DOMAIN store |-> NoProbe]

Init ==
    \E store \in StoreMenu, gals \in GalaxyLists, p \in ParamsMenu :
        Start(store, gals, p)

Next ==
    \/ Build
    \/ \E k \in DOMAIN tasks : TaskBegin(k)
    \/ \E k \in DOMAIN tasks : TaskPerturb(k)
    \/ EndRound
    \/ Abort

Spec == Init /\ [][Next]_vars

(***************************************************************************)
(* perturbation_round and perturb_template called on their own: on the     *)
(* template of a store of one key with the training set                    *)
(* create_training_sets gives it, and perturbation_round once more on what *)
(* its first run returned                                                  *)
(***************************************************************************)
\* perturb_template(training_set, template, bandpass_dict, w, Delta), called
\* with what the task of key k was handed
CallSolver(k) ==
    /\ pc = "pool"
    /\ tasks[k].pc = "queued"
    /\ tasks[k].run = 1
    /\ probe[k].solver = None
    /\ probe' = [probe EXCEPT ![k].solver =
                    Some(perturb_template(tasks[k].training_set, tasks[k].template,
                                          bandpass_dict, params.Delta))]
    /\ UNCHANGED <<pc, params, template_dict, galaxies, bandpass_dict, given,
                   new_templates, mse0, history, roundN, training_sets, tasks,
                   totPerts, builds, passes>>

\* perturbation_round called again as train_templates calls it in its next
\* round: on templates[-1] with mse0 = mse_list[-1] of the run that returned,
\* here with the same training set
Rerun(k) ==
    /\ pc = "pool"
    /\ tasks[k].pc = "done"
    /\ tasks[k].run = 1
    /\ probe' = [probe EXCEPT ![k].first = Some(tasks[k])]
    /\ tasks' = [tasks EXCEPT ![k] =
                    QueuedTask(tasks[k].training_set, Last(tasks[k].templates),
                               Last(tasks[k].mse_list), tasks[k].round + 1, 2)]
    /\ UNCHANGED <<pc, params, template_dict, galaxies, bandpass_dict, given,
                   new_templates, mse0, history, roundN, training_sets, totPerts,
                   builds, passes>>

\* the state in which the tasks of the first round are queued
InitLoop ==
    \E store \in OneKeyStores, gals \in GalaxyLists, p \in ParamsMenu :
    \E cts \in {create_training_sets(store, gals, BandpassDict)} :
        /\ cts.status = "ok"
        /\ pc = "pool"
        /\ params = p
        /\ template_dict = store
        /\ galaxies = gals
        /\ bandpass_dict = BandpassDict
        /\ given = [template_dict |-> store, galaxies |-> gals,
                    bandpass_dict |-> BandpassDict]
        /\ new_templates = DeepCopy(store)
        /\ mse0 = [k \in DOMAIN store |-> Mse0Init]
        /\ history = [k \in DOMAIN store |-> << >>]
        /\ roundN = 1
        /\ training_sets = cts.sets
        /\ tasks = [k \in DOMAIN store |->
                       QueuedTask(cts.sets[k], store[k], Mse0Init, 1, 1)]
        /\ totPerts = 0
        /\ builds = 1
        /\ passes = [k \in DOMAIN store |-> 0]
        /\ probe = [k \in DOMAIN store |-> NoProbe]

NextLoop ==
    \/ \E k \in DOMAIN tasks : TaskBegin(k)
    \/ \E k \in DOMAIN tasks : TaskPerturb(k)
    \/ \E k \in DOMAIN tasks : Rerun(k)
    \/ \E k \in DOMAIN tasks : CallSolver(k)

SpecLoop == InitLoop /\ [][NextLoop]_vars

(***************************************************************************)
(* The end of train_templates on its own: the renormalization of a store   *)
(* whose templates have grids in Angstrom, as new_naive_templates makes    *)
(* them (from 4000 on, in steps of 50, 100 or 200)                         *)
(***************************************************************************)
TemplateGrids ==
    {Arange(4000, 5101, 50), Arange(4000, 5101, 100), Arange(4000, 5201, 200)}

\* flux curves over a grid: flat, rising and falling
FluxShapes(wavelen) ==
    {[i \in DOMAIN wavelen |-> 5],
     [i \in DOMAIN wavelen |-> i],
     [i \in DOMAIN wavelen |-> Len(wavelen) + 1 - i]}

GridSeds == UNION {{NewSed(wavelen, f) : f \in FluxShapes(wavelen)} : wavelen \in TemplateGrids}

GridStores ==
    {[k \in {"t1"} |-> s] : s \in GridSeds}
    \cup {[k \in {"t1", "t2"} |-> IF k = "t1" THEN p[1] ELSE p[2]] :
             p \in {q \in GridSeds \X GridSeds : q[1].wavelen # q[2].wavelen}}

\* renorm: False, or a wavelength in Angstrom
RenormWavelengths == {None, Some(4000), Some(4500), Some(5000), Some(5200)}

\* the while loop of train_templates has ended with this store
InitRenorm ==
    \E store \in GridStores, renorm \in RenormWavelengths :
        /\ pc = "stopped"
        /\ params = Call(None, None, None, renorm)
        /\ template_dict = store
        /\ galaxies = << >>
        /\ bandpass_dict = BandpassDict
        /\ given = [template_dict |-> store, galaxies |-> << >>,
                    bandpass_dict |-> BandpassDict]
        /\ new_templates = DeepCopy(store)
        /\ mse0 = [k \in DOMAIN store |-> Mse0Init]
        /\ history = [k \in DOMAIN store |-> << >>]
        /\ roundN = 1
        /\ training_sets = EmptySets(store)
        /\ tasks = [k \in DOMAIN store |-> IdleTask]
        /\ totPerts = 0
        /\ builds = 1
        /\ passes = [k \in DOMAIN store |-> 1]
        /\ probe = [k \in DOMAIN store |-> NoProbe]

\* if renorm != False: ... and the return
Renormalize ==
    /\ pc = "stopped"
    /\ \E rn \in {RenormAll(new_templates.store, params.renorm)} :
           /\ new_templates' = [new_templates EXCEPT !.store = rn.store]
           /\ pc' = IF rn.status = "ok" THEN "done" ELSE "raised"
    /\ template_dict' = CallerSees(new_templates')
    /\ UNCHANGED <<params, galaxies, bandpass_dict, given, mse0, history, roundN,
                   training_sets, tasks, totPerts, builds, passes, probe>>

SpecRenorm == InitRenorm /\ [][Renormalize]_vars

(***************************************************************************)
(* Properties of train_templates                                           *)
(***************************************************************************)
Keys == DOMAIN tasks

\* the flux curve has no negative entry
NonNegative(sed) == \A i \in DOMAIN sed.flambda : sed.flambda[i][1] >= 0

\* C1: with maxRounds = 1 train_templates builds the training sets exactly
\* once and runs perturbation_round exactly once per template, and then
\* stops: it never goes back to the top of its loop, however many
\* perturbations the round applied.
OneRoundOnly ==
    params.maxRounds = Some(1) =>
        /\ builds <= 1
        /\ \A k \in Keys : passes[k] <= 1
        /\ (pc = "build" => roundN = 0)
        /\ (pc = "done" => /\ builds = 1
                           /\ roundN = 1
                           /\ \A k \in Keys : passes[k] = 1)

OneRoundOnlyWitness ==
    /\ params.maxRounds = Some(1)
    /\ pc = "done"
    /\ totPerts > 0
    /\ \E k \in Keys : tasks[k].exit = "none" \/ Len(tasks[k].templates) > 1

\* C2: after every perturbation step of a convergence loop, and in the
\* store train_templates is training and returns, no flux curve has a
\* negative entry.
FluxNeverNegative ==
    /\ \A k \in Keys : \A n \in DOMAIN tasks[k].templates :
           NonNegative(tasks[k].templates[n])
    /\ \A k \in DOMAIN new_templates.store : NonNegative(new_templates.store[k])

\* C3: when maxPerts is given, a run of perturbation_round applies at most
\* maxPerts perturbations and holds at most maxPerts + 1 snapshots.
MaxPertsCapsTheLoop ==
    \A k \in Keys :
        params.maxPerts # None =>
            /\ tasks[k].pertN <= params.maxPerts[1]
            /\ Len(tasks[k].templates) <= params.maxPerts[1] + 1

\* C4: the store changes only when every task of the round has returned;
\* the training sets of the next round are built only from a store that
\* holds the last snapshot of every task of the round before; and all tasks
\* that exist belong to the same round.
RoundBarrier ==
    [][ /\ (new_templates' # new_templates =>
               \A k \in Keys : tasks[k].pc = "done")
        /\ (builds' # builds /\ roundN > 0 =>
               \A k \in Keys : /\ tasks[k].pc = "done"
                               /\ new_templates.store[k] = Last(tasks[k].templates))
        /\ \A k \in DOMAIN tasks' :
               tasks'[k].pc # "idle" => tasks'[k].round = roundN'
      ]_vars

RoundBarrierWitness ==
    /\ Keys = {"t1", "t2"}
    /\ pc = "pool"
    /\ roundN = 2
    /\ tasks["t1"].pc = "done"
    /\ tasks["t2"].pc = "perturbing"
    /\ new_templates.store # given.template_dict

\* C5 as stated: a failure of the linear solve never ends the run; the
\* template is skipped and the training goes on.
SolveFailureIsSkipped ==
    ~(pc = "raised" /\ \E k \in Keys : tasks[k].error = "LinAlgError")

\* C5: a failure of the linear solve in one task is not caught: as long as
\* the failed task exists, train_templates is waiting in pool.starmap or has
\* raised, the store is as it was when the round began, none of the round's
\* results is merged, and once train_templates has raised it stays so.
SolveFailureAborts ==
    [][ /\ ((\E k \in Keys : tasks[k].error = "LinAlgError") =>
               /\ pc \in {"pool", "raised"}
               /\ \A k \in Keys : new_templates.store[k] = tasks[k].start
               /\ new_templates' = new_templates
               /\ mse0' = mse0
               /\ pc' \in {"pool", "raised"})
        /\ (pc = "raised" => pc' = "raised")
      ]_vars

SolveFailureAbortsWitness ==
    /\ pc = "raised"
    /\ Keys = {"t1", "t2"}
    /\ \E k \in Keys : tasks[k].error = "LinAlgError"
    /\ \E k \in Keys : tasks[k].pc = "done" /\ tasks[k].pertN > 0

\* the rows of the first n galaxies whose match is key, in the order of the
\* galaxies
RECURSIVE RowsMatchedTo(_, _)
RowsMatchedTo(key, n) ==
    IF n = 0 THEN << >>
    ELSE LET m == match_photometry(new_templates.store, galaxies[n], bandpass_dict)
         IN  RowsMatchedTo(key, n - 1)
                 \o (IF m.key = key THEN GalaxyRows(galaxies[n], m.scale) ELSE << >>)

\* C6: the training sets create_training_sets returns have exactly the keys
\* of the store, and the set of each key holds the observations of exactly
\* the galaxies match_photometry matched to that key (none, when no galaxy
\* matched).  The sets are looked at when create_training_sets has returned
\* them, before a task of the round is taken up.
TrainingSetsFollowTheMatch ==
    (pc = "pool" /\ \A k \in Keys : tasks[k].pc = "queued") =>
        /\ DOMAIN training_sets = DOMAIN new_templates.store
        /\ \A key \in DOMAIN training_sets :
               training_sets[key] = RowsMatchedTo(key, Len(galaxies))

TrainingSetsFollowTheMatchWitness ==
    /\ pc = "pool"
    /\ \A k \in Keys : tasks[k].pc = "queued"
    /\ Len(galaxies) = 2
    /\ DOMAIN training_sets = {"t1", "t2"}
    /\ training_sets["t1"] = << >>
    /\ Len(training_sets["t2"]) = 4

\* C8: the caller's templates, galaxies and bandpasses are at every moment
\* what they were when train_templates was called.
InputsUnchanged ==
    /\ template_dict = given.template_dict
    /\ galaxies = given.galaxies
    /\ bandpass_dict = given.bandpass_dict

InputsUnchangedWitness ==
    /\ pc = "done"
    /\ params.renorm # None
    /\ roundN >= 2
    /\ Len(galaxies) > 0
    /\ \A k \in DOMAIN new_templates.store :
           new_templates.store[k] # given.template_dict[k]

(***************************************************************************)
(* Properties of perturbation_round and perturb_template                   *)
(***************************************************************************)
\* C7: when a run of perturbation_round that ended converged is followed by
\* a run on the template it returned, with the same training set and with
\* mse0 the last mse of the first run, the second run applies no
\* perturbation, or one that leaves the flux curve as it was, and the
\* template it ends with is the template it was given.
ConvergedRunIsAFixedPoint ==
    \A k \in Keys :
        (/\ tasks[k].run = 2
         /\ probe[k].first # None
         /\ probe[k].first[1].exit = "converged") =>
            /\ tasks[k].start = probe[k].first[1].template
            /\ tasks[k].pc \in {"queued", "done"}
            /\ tasks[k].pertN <= 1
            /\ tasks[k].template = tasks[k].start
            /\ \A n \in DOMAIN tasks[k].templates :
                   tasks[k].templates[n] = tasks[k].start

ConvergedRunIsAFixedPointWitness ==
    \E k \in Keys :
        /\ tasks[k].run = 2
        /\ tasks[k].pc = "done"
        /\ probe[k].first # None
        /\ probe[k].first[1].exit = "converged"
        /\ probe[k].first[1].pertN >= 2
        /\ probe[k].first[1].template # probe[k].first[1].start

\* C10: for a template with an empty training set perturb_template returns,
\* without raising, a zero correction as long as the wavelength grid, with
\* Delta given or not, and perturbation_round on such a template does not
\* raise.
EmptyTrainingSetIsSolved ==
    \A k \in Keys :
        (tasks[k].run = 1 /\ tasks[k].training_set = << >>) =>
            /\ tasks[k].pc # "raised"
            /\ probe[k].solver # None =>
                   /\ probe[k].solver[1].status = "ok"
                   /\ Len(probe[k].solver[1].sol) = Len(tasks[k].start.wavelen)
                   /\ \A i \in DOMAIN probe[k].solver[1].sol :
                          probe[k].solver[1].sol[i] = R(0)

(***************************************************************************)
(* Properties of the renormalization                                       *)
(***************************************************************************)
\* the index, counted from 1, of the point of the coarse grid nearest to
\* the wavelength
NearestCoarseIdx(template, wavelength) ==
    LET X == Arange(template.wavelen[1], template.wavelen[Len(template.wavelen)],
                    RegridStep)
    IN  ArgMin([i \in DOMAIN X |-> R(Abs(X[i] - wavelength))])

\* C9: when renorm is a wavelength, train_templates returns, without an
\* index error, a store in which the smoothed flux curve of every template
\* is 1 at the point of the coarse grid nearest to that wavelength.
SmoothedFluxIsOneAtRenorm ==
    (pc \in {"done", "raised"} /\ params.renorm # None) =>
        /\ pc = "done"
        /\ \A k \in DOMAIN new_templates.store :
               Smoothed(new_templates.store[k])
                   [NearestCoarseIdx(new_templates.store[k], params.renorm[1])] = R(1)

\* the perturbations of the round whose tasks are held: snapshots returned
\* minus one, per template
RECURSIVE PertsOfRound(_)
PertsOfRound(ks) ==
    IF ks = {} THEN 0
    ELSE LET k == CHOOSE x \in ks : TRUE
         IN  (Len(tasks[k].templates) - 1) + PertsOfRound(ks \ {k})

\* the loop body of train_templates has run to its end for round roundN
RoundMerged ==
    /\ roundN > 0
    /\ \A k \in Keys : /\ tasks[k].pc = "done"
                       /\ tasks[k].round = roundN
                       /\ Len(history[k]) = roundN

\* C11: at the end of a round totPerts is the sum over the templates of the
\* snapshots returned minus one; train_templates goes on to another round
\* only if that sum is not zero and the round number is not maxRounds; it
\* leaves the loop only if the sum is zero or the round number is maxRounds;
\* and when maxRounds is given the round number never exceeds it.
StopRule ==
    /\ (RoundMerged => totPerts = PertsOfRound(Keys))
    /\ (RoundMerged /\ pc = "build" =>
           /\ totPerts # 0
           /\ params.maxRounds # Some(roundN))
    /\ (RoundMerged /\ pc \in {"done", "raised"} =>
           \/ totPerts = 0
           \/ params.maxRounds = Some(roundN))
    /\ (params.maxRounds # None => roundN <= params.maxRounds[1])

=============================================================================
